---- MODULE Spec2Model ----
(***************************************************************************)
(* A model of scripts/export_esda_for_web.py (the ESDA export script) and  *)
(* of SpatialRegressionSuite.fit (models/spatial_regression.py).           *)
(*                                                                         *)
(* A dataset is a frame of NUnits rows with a RangeIndex (keys 1..NUnits). *)
(* A column is a function from keys to values; a frame is a function from  *)
(* column names to columns, so "c \in DOMAIN gdf" is "c in gdf.columns".   *)
(* An attribute value is "NA" (missing) or "num" (a number: the script     *)
(* never looks at the number, it only hands it to the statistics library). *)
(* The geometry is a strip of counties in key order: unit u touches u-1    *)
(* and u+1 only.                                                           *)
(*                                                                         *)
(* The permutation statistics come from the esda library, which the script *)
(* calls without a seed: the library draws from numpy's global random      *)
(* state, which starts from operating-system entropy.  The model keeps that*)
(* hidden state in rng; a call's result is a function of rng and of the    *)
(* position in the array handed to the library.  Pseudo p-values are kept  *)
(* as numerators over permutations + 1.                                    *)
(*                                                                         *)
(* The functions of features/spatial.py and features/pain_metrics.py are   *)
(* called on small frames laid out on a grid (SpecFeatures), with exact    *)
(* fractions for the weights; validate_required_files, DataCatalog.missing *)
(* and build_analysis_dataset are called on every set of existing catalog  *)
(* files (SpecPipeline).  The loaders of data/loaders.py and the merge of   *)
(* _build_from_raw_assets are called on small raw files whose FIPS codes   *)
(* are texts of digits (SpecLoaders), and the NAME fallback of the export  *)
(* script runs on the datasets with every spelling of that column          *)
(* (SpecLoad).                                                             *)
(***************************************************************************)
EXTENDS Integers, Sequences, FiniteSets, TLC

\* ------------------------------------------------------------------ bounds
NUnits == 103
NSeeds == 2

\* ------------------------------------------------------- program constants
MinValid == 100
permutations == 999

Units == 1..NUnits

TRUMP == "trump_share_2016"
DISTRESS == "freq_phys_distress_pct"
LisaVars == <<TRUMP, DISTRESS>>

LisaCol(var) ==
    IF var = TRUMP THEN "trump_share_2016_lisa_cluster"
    ELSE "freq_phys_distress_pct_lisa_cluster"

HotspotCol(var) ==
    IF var = TRUMP THEN "trump_share_2016_hotspot_conf"
    ELSE "freq_phys_distress_pct_hotspot_conf"

BvCol == "bv_cluster"

EsdaCols == {LisaCol(TRUMP), LisaCol(DISTRESS), BvCol,
             HotspotCol(TRUMP), HotspotCol(DISTRESS)}

web_columns ==
    <<"fips", "NAME", "geometry",
      "trump_share_2016", "trump_share_2020", "trump_shift_16_20",
      "od_1316_rate", "od_1720_rate", "od_rate_change",
      "freq_phys_distress_pct", "freq_mental_distress_pct",
      "arthritis_pct", "depression_pct", "diabetes_pct",
      "trump_share_2016_lisa_cluster",
      "freq_phys_distress_pct_lisa_cluster",
      "bv_cluster",
      "trump_share_2016_hotspot_conf",
      "freq_phys_distress_pct_hotspot_conf",
      "rucc", "rural", "rucc_category">>

NotSignificant == "Not Significant"

VARIABLES
    file_in,        \* data/processed/counties_analysis.geojson, as a frame
    gdf,            \* the frame in memory
    pc,             \* position of the script
    needs_lisa, needs_bv, needs_hotspot,
    w,              \* weights of the full frame (line 53)
    valid_indices,  \* index labels of the rows of the last subset
    w_subset,       \* weights last built on a subset
    rng,            \* numpy's global random state
    draws,          \* per analysis, the random state its library call ran from
    log,            \* what the script has printed
    file_out,       \* web/assets/counties_esda.geojson
    run, prev_out, prev_log,  \* a second run of the script on the same file
    suite,          \* a SpatialRegressionSuite constructed on gdf
    given,          \* the frame a feature function is called with
    ret,            \* the last call of a function and what it returned or raised
    fs              \* the files that exist under the project root

vars == <<file_in, gdf, pc, needs_lisa, needs_bv, needs_hotspot, w,
          valid_indices, w_subset, rng, draws, log, file_out,
          run, prev_out, prev_log, suite, given, ret, fs>>

\* ---------------------------------------------------------------- frames
index == [u \in Units |-> u]

Range(s) == {s[i] : i \in DOMAIN s}

\* pd.concat(frames): the rows of the frames, one frame after the other
RECURSIVE Flatten(_)
Flatten(ss) == IF ss = <<>> THEN <<>> ELSE Head(ss) \o Flatten(Tail(ss))

\* gdf[c] = col, adding the column when it is new
SetColumn(g, c, col) ==
    [x \in DOMAIN g \cup {c} |-> IF x = c THEN col ELSE g[x]]

\* gdf[c] = value, broadcast to every row
Broadcast(value) == [u \in Units |-> value]

\* col.notna()
Notna(col) == [u \in Units |-> col[u] # "NA"]

\* a rejoin by position: the positions selected, not the labels at them
BoolIndexPositions(idx, mask) ==
    SelectSeq([i \in 1..Len(idx) |-> i], LAMBDA i : mask[i])

\* idx[mask]: boolean indexing of an Index, positions kept in order
BoolIndex(idx, mask) ==
    LET keep == SelectSeq([i \in 1..Len(idx) |-> i], LAMBDA i : mask[i])
    IN  [k \in 1..Len(keep) |-> idx[keep[k]]]

\* gdf.loc[labels, c] = value: assignment by index label
LocAssign(col, labels, value) ==
    LET hit == Range(labels)
    IN  [u \in Units |-> IF u \in hit THEN value ELSE col[u]]

\* ------------------------------------------------------------- geometry
Touches(u, v) == u # v /\ (u - v = 1 \/ v - u = 1)

\* Queen.from_dataframe(frame, use_index=False): ids are row positions.
\* Rows are in key order and a unit touches only the next and the previous
\* key, so only adjacent rows can touch.
QueenFromDataframe(rows) ==
    LET m == Len(rows)
    IN  [n |-> m,
         neighbors |-> [i \in 1..m |->
             {j \in {i - 1, i + 1} \cap (1..m) : Touches(rows[i], rows[j])}]]

NoGraph == [n |-> 0, neighbors |-> <<>>]

\* ------------------------------------------------- the statistics library
\* Pseudo p-values are (count + 1) / (permutations + 1); PSeq holds the
\* numerators the model draws from: the ends of the range and both sides of
\* every threshold the script compares with.
PSeq == <<1, 9, 10, 49, 50, 99, 100, 1000>>
ZSeq == <<1, -1, 0>>

Seeds == 0..(NSeeds - 1)

\* p = count / (R + 1), without the added one
PAtCount(r, i) == PSeq[((i + r) % Len(PSeq)) + 1] - 1

\* the result arrays of a call that runs from random state r on m values
PAt(r, i) == PSeq[((i + r) % Len(PSeq)) + 1]
QAt(r, i) == (((i + r) \div Len(PSeq)) % 4) + 1
ZAt(r, i) == ZSeq[(((i + r) \div Len(PSeq)) % Len(ZSeq)) + 1]
PSimOf(r, m) == [i \in 1..m |-> PAt(r, i)]
QOf(r, m) == [i \in 1..m |-> QAt(r, i)]
ZSimOf(r, m) == [i \in 1..m |-> ZAt(r, i)]

\* Moran_Local(values, w, permutations=999) and Moran_Local_BV(...)
Moran_Local(r, graph) == [p_sim |-> PSimOf(r, graph.n), q |-> QOf(r, graph.n)]

\* G_Local(values, w, permutations=999): the object has no attribute Gi,
\* so the script reads z_sim for the direction
G_Local(r, graph) == [p_sim |-> PSimOf(r, graph.n), z_sim |-> ZSimOf(r, graph.n)]

\* the random state after a call
Advance(r) == (r + 1) % NSeeds

\* p < hundredths / 100, for p = pn / (permutations + 1)
Below(pn, hundredths) == pn * 100 < hundredths * (permutations + 1)

\* ------------------------------------------------------- label mapping
\* p <= 0.05 in place of p < 0.05
SigInclusive(p_sim) ==
    [i \in DOMAIN p_sim |-> p_sim[i] * 100 <= 5 * (permutations + 1)]

\* sig = lisa.p_sim < 0.05
Sig(p_sim) == [i \in DOMAIN p_sim |-> Below(p_sim[i], 5)]

\* the four assignments of lines 80-83 (and 114-117), in order
MapLisa(vi, res) ==
    LET sig == Sig(res.p_sim)
        mask(k) == [i \in DOMAIN vi |-> sig[i] /\ res.q[i] = k]
        c0 == Broadcast(NotSignificant)
        c1 == LocAssign(c0, BoolIndex(vi, mask(1)), "HH")
        c2 == LocAssign(c1, BoolIndex(vi, mask(2)), "LH")
        c3 == LocAssign(c2, BoolIndex(vi, mask(3)), "LL")
    IN  LocAssign(c3, BoolIndex(vi, mask(4)), "HL")

\* the 95% band without its lower end, and the 90% band with p = 0.10 in it
Sig95Overlap(p_sim) == [i \in DOMAIN p_sim |-> Below(p_sim[i], 5)]
Sig90Inclusive(p_sim) ==
    [i \in DOMAIN p_sim |-> p_sim[i] * 100 <= 10 * (permutations + 1) /\ ~Below(p_sim[i], 5)]

\* sig_99, sig_95, sig_90 of lines 152, 156, 160
Sig99(p_sim) == [i \in DOMAIN p_sim |-> Below(p_sim[i], 1)]
Sig95(p_sim) == [i \in DOMAIN p_sim |-> Below(p_sim[i], 5) /\ ~Below(p_sim[i], 1)]
Sig90(p_sim) == [i \in DOMAIN p_sim |-> Below(p_sim[i], 10) /\ ~Below(p_sim[i], 5)]

\* the six band assignments: the mask and the label each one writes
HotspotBands(res) ==
    LET gi_values == res.z_sim
        s99 == Sig99(res.p_sim)
        s95 == Sig95(res.p_sim)
        s90 == Sig90(res.p_sim)
        dom == DOMAIN res.p_sim
    IN  << [mask |-> [i \in dom |-> s99[i] /\ gi_values[i] > 0], label |-> "Hot Spot - 99% Conf"],
           [mask |-> [i \in dom |-> s99[i] /\ gi_values[i] < 0], label |-> "Cold Spot - 99% Conf"],
           [mask |-> [i \in dom |-> s95[i] /\ gi_values[i] > 0], label |-> "Hot Spot - 95% Conf"],
           [mask |-> [i \in dom |-> s95[i] /\ gi_values[i] < 0], label |-> "Cold Spot - 95% Conf"],
           [mask |-> [i \in dom |-> s90[i] /\ gi_values[i] > 0], label |-> "Hot Spot - 90% Conf"],
           [mask |-> [i \in dom |-> s90[i] /\ gi_values[i] < 0], label |-> "Cold Spot - 90% Conf"] >>

\* the assignments of a list of bands applied in the order given
RECURSIVE ApplyBands(_, _, _, _)
ApplyBands(col, vi, bands, order) ==
    IF order = <<>> THEN col
    ELSE LET b == bands[Head(order)]
         IN  ApplyBands(LocAssign(col, BoolIndex(vi, b.mask), b.label),
                        vi, bands, Tail(order))

\* lines 145-162
MapHotspot(vi, res) ==
    ApplyBands(Broadcast(NotSignificant), vi, HotspotBands(res), <<1, 2, 3, 4, 5, 6>>)

\* ------------------------------------------------------------ datasets
\* the rows on which an attribute is missing
Evens == {u \in Units : u % 2 = 0}
MissingSets == {{}, {2}, {2, 3, NUnits}, Evens}

AttrColumn(missing) == [u \in Units |-> IF u \in missing THEN "NA" ELSE "num"]

\* an ESDA column already in the file holds the labels of an earlier export
CachedColumn(c) ==
    IF c \in {HotspotCol(TRUMP), HotspotCol(DISTRESS)}
    THEN Broadcast("Cold Spot - 90% Conf") ELSE Broadcast("LL")

Frame(attrs, tmiss, dmiss, cached) ==
    [c \in {"fips", "NAME"} \cup attrs \cup cached |->
        CASE c = "fips" -> [u \in Units |-> ToString(u)]
          [] c = "NAME" -> Broadcast("county")
          [] c = TRUMP -> AttrColumn(tmiss)
          [] c = DISTRESS -> AttrColumn(dmiss)
          [] OTHER -> CachedColumn(c)]

\* the ESDA columns an earlier export left in the file: the two columns of
\* freq_phys_distress_pct are there together or not at all
CachedSets ==
    {S \in SUBSET EsdaCols :
        LisaCol(DISTRESS) \in S <=> HotspotCol(DISTRESS) \in S}

Datasets ==
    {Frame(attrs, tmiss, dmiss, cached) :
        attrs \in SUBSET {TRUMP, DISTRESS},
        tmiss \in MissingSets, dmiss \in MissingSets,
        cached \in CachedSets}

\* ------------------------------------------------ features/spatial.py
\* A frame handed to a feature function is a record: geo (it is a
\* GeoDataFrame), index (the row labels in row order), geometry (by label)
\* and cols (the attribute columns, by label).  A geometry is a unit square
\* of a grid, named by its column and its row.  A value is <<x>> for the
\* number x and <<>> for a missing value.
NaN == <<>>

Abs(a) == IF a < 0 THEN -a ELSE a

\* Queen contiguity: the squares share a vertex; Rook: they share an edge
QueenTouch(p, q) == p # q /\ Abs(p[1] - q[1]) <= 1 /\ Abs(p[2] - q[2]) <= 1
RookTouch(p, q) == Abs(p[1] - q[1]) + Abs(p[2] - q[2]) = 1

\* squared distance of the centroids
Dist2(p, q) ==
    (p[1] - q[1]) * (p[1] - q[1]) + (p[2] - q[2]) * (p[2] - q[2])

\* KNN: the k nearest other rows.  The order the library's KD-tree gives
\* to rows at the same distance is tie: by label, ascending or descending.
KNearest(frame, u, k, tie) ==
    LET others == Range(frame.index) \ {u}
        d(v) == Dist2(frame.geometry[u], frame.geometry[v])
        Before(x, v) ==
            \/ d(x) < d(v)
            \/ d(x) = d(v) /\ (IF tie = "asc" THEN x < v ELSE x > v)
    IN  {v \in others : Cardinality({x \in others : Before(x, v)}) < k}

\* Queen.from_dataframe(gdf, use_index=True), Rook.from_dataframe(gdf,
\* use_index=True), KNN.from_dataframe(gdf, k=k_neighbors): ids are the index
\* labels, every neighbour has weight 1 (a weight is <<numerator, denominator>>)
FromDataframe(frame, weight_type, k_neighbors, tie) ==
    LET ids == Range(frame.index)
        g == frame.geometry
        nb == [u \in ids |->
                 CASE weight_type = "queen" -> {v \in ids : QueenTouch(g[u], g[v])}
                   [] weight_type = "rook" -> {v \in ids : RookTouch(g[u], g[v])}
                   [] OTHER -> KNearest(frame, u, k_neighbors, tie)]
    IN  [id_order |-> frame.index,
         neighbors |-> nb,
         weights |-> [u \in ids |-> [v \in nb[u] |-> <<1, 1>>]],
         transform |-> "O"]

\* the transformation recorded but the weights left as they were
TransformNone(graph) == [graph EXCEPT !.transform = "r"]

\* w.transform = "r": every weight of a row is divided by the sum of the
\* row's weights (all 1, so the sum is the number of neighbours); the row of
\* an island is empty and stays empty
TransformR(graph) ==
    [graph EXCEPT
        !.transform = "r",
        !.weights = [u \in DOMAIN graph.neighbors |->
            LET row_sum == Cardinality(graph.neighbors[u])
            IN  [v \in graph.neighbors[u] |->
                    <<graph.weights[u][v][1], graph.weights[u][v][2] * row_sum>>]]]

Raise(exception) == [raised |-> exception]
Raised(out) == "raised" \in DOMAIN out

\* weights that fall back to queen contiguity for an unknown weight_type
BuildWeightsDefaultQueen(frame, weight_type, k_neighbors, tie) ==
    IF ~frame.geo THEN Raise("TypeError")
    ELSE IF weight_type \notin {"queen", "rook", "knn"}
         THEN TransformR(FromDataframe(frame, "queen", k_neighbors, tie))
    ELSE TransformR(FromDataframe(frame, weight_type, k_neighbors, tie))

\* build_spatial_weights(gdf, weight_type, k_neighbors)
build_spatial_weights(frame, weight_type, k_neighbors, tie) ==
    IF ~frame.geo THEN Raise("TypeError")
    ELSE IF weight_type \notin {"queen", "rook", "knn"} THEN Raise("ValueError")
    ELSE TransformR(FromDataframe(frame, weight_type, k_neighbors, tie))

\* the frame of the export script's counties, restricted to some rows: a
\* strip of squares in key order
StripFrame(rows) ==
    [geo |-> TRUE, index |-> rows,
     geometry |-> [u \in Units |-> <<u, 0>>], cols |-> <<>>]

NoW == [id_order |-> <<>>, neighbors |-> <<>>, transform |-> "O"]
NoSuite == [dropna |-> TRUE, spreg |-> FALSE, results |-> <<>>, w |-> NoW, last |-> "none"]

NoFile == [columns |-> <<>>, data |-> <<>>]
NoArg == [geo |-> FALSE, index |-> <<>>, geometry |-> <<>>, cols |-> <<>>]
NoRet == [fn |-> "none"]
NoDraws == [c \in EsdaCols |-> -1]

Say(msg, arg) == [msg |-> msg, arg |-> arg]

\* the state once gpd.read_file has returned (line 32).  The random state a
\* first process starts from is named 0; a later process starts from any.
InitRun ==
    /\ gdf = file_in
    /\ pc = "check"
    /\ needs_lisa = FALSE /\ needs_bv = FALSE /\ needs_hotspot = FALSE
    /\ w = NoGraph
    /\ valid_indices = <<>>
    /\ w_subset = NoGraph
    /\ rng = 0
    /\ draws = NoDraws
    /\ log = <<Say("Loaded", "")>>
    /\ file_out = NoFile
    /\ run = 1 /\ prev_out = NoFile /\ prev_log = <<>>
    /\ suite = NoSuite
    /\ given = NoArg /\ ret = NoRet /\ fs = {}

InitExport ==
    /\ file_in \in Datasets
    /\ InitRun

\* ------------------------------------------------ the script: lines 35-44
\* the datasets with the county names under NAME, under county_name, under
\* a name that is NAME but for its case, or under no column
NameDatasets ==
    {[c \in (DOMAIN d \ {"NAME"}) \cup {x \in {v} : v # "none"} |->
         IF c = v THEN d["NAME"] ELSE d[c]] :
        d \in Datasets, v \in {"NAME", "county_name", "Name", "name", "none"}}

\* the state once gpd.read_file has returned (line 32), before the NAME
\* column is looked for
InitLoad ==
    /\ file_in \in NameDatasets
    /\ gdf = file_in
    /\ pc = "load"
    /\ needs_lisa = FALSE /\ needs_bv = FALSE /\ needs_hotspot = FALSE
    /\ w = NoGraph
    /\ valid_indices = <<>>
    /\ w_subset = NoGraph
    /\ rng = 0
    /\ draws = NoDraws
    /\ log = <<Say("Loaded", "")>>
    /\ file_out = NoFile
    /\ run = 1 /\ prev_out = NoFile /\ prev_log = <<>>
    /\ suite = NoSuite
    /\ given = NoArg /\ ret = NoRet /\ fs = {}

\* gdf.columns.upper(): gdf.columns is a pandas Index, which has no
\* attribute upper (the string methods of an Index are under .str)
IndexUpper(columns) == Raise("AttributeError")

\* c.upper(), for the column names of the datasets
Upper(c) == IF c \in {"Name", "name"} THEN "NAME" ELSE c

\* lines 36-44.  An exception here is caught by nothing: the script ends
\* with a traceback.
EnsureName ==
    /\ pc = "load"
    /\ IF "NAME" \in DOMAIN gdf
       THEN pc' = "check" /\ UNCHANGED <<gdf, log>>
       ELSE IF "county_name" \in DOMAIN gdf
       THEN /\ gdf' = SetColumn(gdf, "NAME", gdf["county_name"])
            /\ pc' = "check"
            /\ UNCHANGED log
       ELSE LET upper == IndexUpper(DOMAIN gdf)
            IN  IF Raised(upper)
                THEN /\ pc' = "crashed"
                     /\ log' = Append(log, Say(upper.raised, ""))
                     /\ UNCHANGED gdf
                ELSE IF "NAME" \in upper
                THEN LET name_col == CHOOSE c \in DOMAIN gdf : Upper(c) = "NAME"
                     IN  /\ gdf' = SetColumn(gdf, "NAME", gdf[name_col])
                         /\ pc' = "check"
                         /\ UNCHANGED log
                ELSE /\ gdf' = SetColumn(gdf, "NAME", gdf["fips"])
                     /\ pc' = "check"
                     /\ log' = Append(log, Say("Warning: No NAME column found, using FIPS as fallback", ""))
    /\ UNCHANGED <<file_in, needs_lisa, needs_bv, needs_hotspot, w,
                   valid_indices, w_subset, rng, draws, file_out,
                   run, prev_out, prev_log, suite, given, ret, fs>>

SpecLoad == InitLoad /\ [][EnsureName]_vars

\* ------------------------------------------------------------- the script
\* lines 47-54 and 168-169
CheckExisting ==
    /\ pc = "check"
    /\ needs_lisa' = (LisaCol(TRUMP) \notin DOMAIN gdf)
    /\ needs_bv' = (BvCol \notin DOMAIN gdf)
    /\ needs_hotspot' = (HotspotCol(TRUMP) \notin DOMAIN gdf)
    /\ IF needs_lisa' \/ needs_bv' \/ needs_hotspot'
       THEN /\ w' = QueenFromDataframe(index)
            /\ log' = log \o <<Say("2. Computing spatial weights...", ""),
                               Say("Created weights matrix", "")>>
            /\ pc' = "lisa1"
       ELSE /\ log' = Append(log, Say("2-5. ESDA columns already exist, skipping computation...", ""))
            /\ pc' = "export"
            /\ UNCHANGED w
    /\ UNCHANGED <<file_in, gdf, valid_indices, w_subset, rng, draws, file_out,
                   run, prev_out, prev_log, suite, given, ret, fs>>

\* the weights of the full frame handed to a subset computation
SubsetWeightsFull(vi) == QueenFromDataframe(index)

\* gdf_subset = gdf.loc[valid_indices].copy() and the weights built on it
\* (lines 68-69, 101-102, 137-138)
SubsetWeights(vi) == QueenFromDataframe(vi)

\* the library call and the mapping of its result, by kind of analysis
LibraryCall(kind, r, graph) ==
    IF kind = "hotspot" THEN G_Local(r, graph) ELSE Moran_Local(r, graph)

MapBack(kind, vi, res) ==
    IF kind = "hotspot" THEN MapHotspot(vi, res) ELSE MapLisa(vi, res)

\* a handler that swallows the exception without printing it
ComputeSilent(lg, vi, col, kind, announce, done) ==
    LET sub == SubsetWeights(vi)
    IN  /\ w_subset' = sub
        /\ \/ /\ gdf' = SetColumn(gdf, col, MapBack(kind, vi, LibraryCall(kind, rng, sub)))
              /\ rng' = Advance(rng)
              /\ draws' = [draws EXCEPT ![col] = rng]
              /\ log' = lg \o <<announce, done>>
           \/ /\ log' = lg \o <<announce>>
              /\ UNCHANGED <<gdf, rng, draws>>
           \/ /\ gdf' = SetColumn(gdf, col, Broadcast(NotSignificant))
              /\ rng' = Advance(rng)
              /\ log' = lg \o <<announce>>
              /\ UNCHANGED draws

\* The body of one "try": subset the frame, build weights on the subset, call
\* the library and map its result back by index label (lines 66-88, 99-122,
\* 135-167).  "except Exception" prints whatever a statement of the body
\* raised and the script goes on: the exception of the library call, or the
\* IndexError or KeyError of the first assignment by label when the result
\* does not line up with valid_indices (the column then exists, filled with
\* 'Not Significant').
Compute(lg, vi, col, kind, announce, done) ==
    LET sub == SubsetWeights(vi)
    IN  /\ w_subset' = sub
        /\ \/ /\ gdf' = SetColumn(gdf, col, MapBack(kind, vi, LibraryCall(kind, rng, sub)))
              /\ rng' = Advance(rng)
              /\ draws' = [draws EXCEPT ![col] = rng]
              /\ log' = lg \o <<announce, done>>
           \/ /\ log' = lg \o <<announce, Say("Error", "")>>
              /\ UNCHANGED <<gdf, rng, draws>>
           \/ /\ gdf' = SetColumn(gdf, col, Broadcast(NotSignificant))
              /\ rng' = Advance(rng)
              /\ log' = lg \o <<announce, Say("Error", "alignment")>>
              /\ UNCHANGED draws

\* a gate that ends the run when too few valid units remain
GateStops(lg, vi, col, kind, announce, done) ==
    /\ valid_indices' = vi
    /\ IF Len(vi) > MinValid
       THEN Compute(lg, vi, col, kind, announce, done)
       ELSE FALSE

\* the valid-count gate of lines 64, 97 and 133
Gate(lg, vi, col, kind, announce, done) ==
    /\ valid_indices' = vi
    /\ IF Len(vi) > MinValid
       THEN Compute(lg, vi, col, kind, announce, done)
       ELSE /\ log' = lg
            /\ UNCHANGED <<gdf, rng, draws, w_subset>>

Skip(lg) ==
    /\ log' = lg
    /\ UNCHANGED <<gdf, rng, draws, w_subset, valid_indices>>

\* lines 56-88: one pass of the loop over the two variables
LisaStep(k) ==
    /\ pc = <<"lisa1", "lisa2">>[k]
    /\ pc' = <<"lisa2", "bv">>[k]
    /\ LET var == LisaVars[k]
           lg == IF needs_lisa /\ k = 1
                 THEN Append(log, Say("3. Computing LISA clusters...", "")) ELSE log
       IN  IF needs_lisa /\ var \in DOMAIN gdf
           THEN LET valid_mask == Notna(gdf[var])
                IN  Gate(lg, BoolIndex(index, valid_mask), LisaCol(var),
                         "lisa", Say("Computing LISA for", var),
                         Say("significant clusters", ""))
           ELSE Skip(lg)
    /\ UNCHANGED <<file_in, needs_lisa, needs_bv, needs_hotspot, w, file_out,
                   run, prev_out, prev_log, suite, given, ret, fs>>

\* lines 90-122
BivariateStep ==
    /\ pc = "bv"
    /\ pc' = "hot1"
    /\ LET lg == IF needs_bv
                 THEN Append(log, Say("4. Computing bivariate LISA...", "")) ELSE log
       IN  IF needs_bv /\ \A col \in {DISTRESS, TRUMP} : col \in DOMAIN gdf
           THEN LET valid_mask == [u \in Units |->
                        Notna(gdf[DISTRESS])[u] /\ Notna(gdf[TRUMP])[u]]
                IN  Gate(lg, BoolIndex(index, valid_mask), BvCol,
                         "lisa", Say("Computing bivariate LISA", ""),
                         Say("significant bivariate clusters", ""))
           ELSE Skip(lg)
    /\ UNCHANGED <<file_in, needs_lisa, needs_bv, needs_hotspot, w, file_out,
                   run, prev_out, prev_log, suite, given, ret, fs>>

\* lines 124-167: one pass of the loop over the two variables
HotspotStep(k) ==
    /\ pc = <<"hot1", "hot2">>[k]
    /\ pc' = <<"hot2", "export">>[k]
    /\ LET var == LisaVars[k]
           lg == IF needs_hotspot /\ k = 1
                 THEN Append(log, Say("5. Computing hot spots (Getis-Ord Gi*)...", "")) ELSE log
       IN  IF needs_hotspot /\ var \in DOMAIN gdf
           THEN LET valid_mask == Notna(gdf[var])
                IN  Gate(lg, BoolIndex(index, valid_mask), HotspotCol(var),
                         "hotspot", Say("Computing hot spots for", var),
                         Say("Hot spot analysis complete", ""))
           ELSE Skip(lg)
    /\ UNCHANGED <<file_in, needs_lisa, needs_bv, needs_hotspot, w, file_out,
                   run, prev_out, prev_log, suite, given, ret, fs>>

\* web_gdf[cols_to_round].round(2): only the float columns are rounded
Round2(col) == [u \in DOMAIN col |-> IF col[u] = "num" THEN "num.2" ELSE col[u]]

\* a selection that also drops the rows with a missing value
SelectComplete(g, cols) ==
    LET keep == {u \in Units : \A c \in Range(cols) : g[c][u] # "NA"}
    IN  [c \in Range(cols) |-> [u \in keep |-> g[c][u]]]

\* gdf[available_cols].copy(): a list of column names selects columns, and
\* every row of the frame is in the result
Select(g, cols) == [c \in Range(cols) |-> g[c]]

\* lines 171-240
Export ==
    /\ pc = "export"
    /\ pc' = "done"
    /\ LET available_cols == SelectSeq(web_columns, LAMBDA c : c \in DOMAIN gdf)
           missing_cols == SelectSeq(web_columns, LAMBDA c : c \notin DOMAIN gdf)
           selected == Select(gdf, available_cols)
           web_gdf == [c \in DOMAIN selected |->
                          IF c \in {TRUMP, DISTRESS} THEN Round2(selected[c])
                          ELSE selected[c]]
       IN  /\ file_out' = [columns |-> available_cols, data |-> web_gdf]
           /\ log' = log \o <<Say("6. Preparing web export...", "")>>
                         \o [i \in 1..Len(missing_cols) |-> Say("Missing columns", missing_cols[i])]
                         \o <<Say("Exported", "")>>
    /\ UNCHANGED <<file_in, gdf, needs_lisa, needs_bv, needs_hotspot, w,
                   valid_indices, w_subset, rng, draws, run, prev_out, prev_log, suite, given, ret, fs>>

ScriptNext ==
    \/ CheckExisting
    \/ \E k \in 1..2 : LisaStep(k)
    \/ BivariateStep
    \/ \E k \in 1..2 : HotspotStep(k)
    \/ Export

\* ------------------------------------------------- a second run (a new
\* process on the same input file; the output file is still on disk)
Rerun ==
    /\ pc = "done"
    /\ run = 1
    /\ run' = 2
    /\ prev_out' = file_out
    /\ prev_log' = log
    /\ gdf' = file_in
    /\ pc' = "check"
    /\ needs_lisa' = FALSE /\ needs_bv' = FALSE /\ needs_hotspot' = FALSE
    /\ w' = NoGraph
    /\ valid_indices' = <<>>
    /\ w_subset' = NoGraph
    /\ rng' \in Seeds
    /\ draws' = NoDraws
    /\ log' = <<Say("Loaded", "")>>
    /\ UNCHANGED <<file_in, file_out, suite, given, ret, fs>>

TwoRunDatasets ==
    {Frame({TRUMP, DISTRESS}, tmiss, {1, NUnits}, cached) :
        tmiss \in {{}, {2}},
        cached \in {{BvCol, HotspotCol(TRUMP)}, {LisaCol(TRUMP), BvCol}}}

InitTwoRuns ==
    /\ file_in \in TwoRunDatasets
    /\ InitRun

NextTwoRuns == ScriptNext \/ Rerun

SpecTwoRuns == InitTwoRuns /\ [][NextTwoRuns]_vars

\* --------------------------------------------- SpatialRegressionSuite
dependent == TRUMP
predictors == <<DISTRESS>>

\* self.results[key] = ...: a dict keeps the order of first insertion
Put(results, key) ==
    IF key \in Range(results) THEN results ELSE Append(results, key)

\* df.dropna().index, or df.index when dropna is off
FitIndex(frame, dropna) ==
    LET cols == Range(predictors) \cup {dependent}
    IN  IF dropna
        THEN SelectSeq(index, LAMBDA u : \A c \in cols : frame[c][u] # "NA")
        ELSE index

\* the frames a suite is constructed on: no ESDA columns, and one frame in
\* which every row has a missing value
SuiteDatasets ==
    {Frame(attrs, tmiss, dmiss, {}) :
        attrs \in SUBSET {TRUMP, DISTRESS},
        tmiss \in MissingSets \cup {Units}, dmiss \in MissingSets}

\* the state after __init__ (lines 35-48)
InitSuite ==
    /\ file_in \in SuiteDatasets
    /\ gdf = file_in
    /\ pc = "suite"
    /\ needs_lisa = FALSE /\ needs_bv = FALSE /\ needs_hotspot = FALSE
    /\ w = NoGraph
    /\ valid_indices = <<>>
    /\ w_subset = NoGraph
    /\ rng = 0
    /\ draws = NoDraws
    /\ log = <<>>
    /\ file_out = NoFile
    /\ run = 1 /\ prev_out = NoFile /\ prev_log = <<>>
    /\ \E d \in BOOLEAN, sp \in BOOLEAN :
           suite = [dropna |-> d, spreg |-> sp, results |-> <<>>, w |-> NoW,
                    last |-> "constructed"]
    /\ given = NoArg /\ ret = NoRet /\ fs = {}

\* fit(), lines 50-123.  sm.OLS rejects predictors with a missing value and
\* may or may not reject a missing dependent value; ML_Lag and ML_Error may
\* raise; spreg may not be installed.
SuiteFit ==
    /\ pc = "suite"
    /\ LET cols == Range(predictors) \cup {dependent}
       IN  IF ~(cols \subseteq DOMAIN gdf)
           THEN suite' = [suite EXCEPT !.last = "KeyError"]
           ELSE LET df_index == FitIndex(gdf, suite.dropna)
                    x_na == \E u \in Range(df_index) :
                                \E c \in Range(predictors) : gdf[c][u] = "NA"
                    y_na == \E u \in Range(df_index) : gdf[dependent][u] = "NA"
                    with_ols == Put(suite.results, "ols")
                    built == build_spatial_weights(StripFrame(df_index),
                                                   "queen", 8, "asc")
                IN  IF df_index = <<>>
                    THEN suite' = [suite EXCEPT !.last = "ValueError"]
                    ELSE \/ /\ x_na \/ y_na
                            /\ suite' = [suite EXCEPT !.last = "MissingDataError"]
                         \/ /\ ~x_na
                            /\ ~suite.spreg
                            /\ suite' = [suite EXCEPT !.results = with_ols,
                                                      !.last = "returned"]
                         \/ /\ ~x_na
                            /\ suite.spreg
                            /\ \E stored \in {<<>>, <<"spatial_lag">>,
                                               <<"spatial_lag", "spatial_error">>} :
                                   suite' = [suite EXCEPT
                                       !.results = IF stored = <<>> THEN with_ols
                                                   ELSE IF Len(stored) = 1
                                                        THEN Put(with_ols, "spatial_lag")
                                                        ELSE Put(Put(with_ols, "spatial_lag"),
                                                                 "spatial_error"),
                                       !.w = built,
                                       !.last = IF Len(stored) = 2 THEN "returned"
                                                ELSE "LibraryError"]
    /\ UNCHANGED <<file_in, gdf, pc, needs_lisa, needs_bv, needs_hotspot, w,
                   valid_indices, w_subset, rng, draws, log, file_out,
                   run, prev_out, prev_log, given, ret, fs>>

\* the rows of summary.coefficients: the constant and the predictors for
\* OLS, and one more (rho, lambda) for the two spatial models
CoefRows(key) == IF key = "ols" THEN Len(predictors) + 1 ELSE Len(predictors) + 2

\* a to_dataframe that returns an empty table when nothing was fit
ToDataframeEmpty(results) ==
    [rows |-> Flatten([k \in DOMAIN results |->
                 [r \in 1..CoefRows(results[k]) |->
                     [model |-> results[k], coefficient |-> r]]])]

\* to_dataframe(), lines 125-135, on self.results
to_dataframe(results) ==
    IF results = <<>> THEN Raise("RuntimeError")
    ELSE [rows |-> Flatten([k \in DOMAIN results |->
                      [r \in 1..CoefRows(results[k]) |->
                          [model |-> results[k], coefficient |-> r]]])]

\* a call suite.to_dataframe()
ToDataframe ==
    /\ pc = "suite"
    /\ ret' = [fn |-> "to_dataframe",
               results |-> suite.results,
               out |-> to_dataframe(suite.results)]
    /\ UNCHANGED <<file_in, gdf, pc, needs_lisa, needs_bv, needs_hotspot, w,
                   valid_indices, w_subset, rng, draws, log, file_out,
                   run, prev_out, prev_log, suite, given, fs>>

\* ------------------------------------------- calls of feature functions
\* the bounds of the frames handed to the feature functions: rows of a
\* frame, squares of the grid, squares in a grid row
LibRows == 4
NCells == 6
GridWidth == 3

\* the sets of squares the rows of a frame can occupy; the rows are labelled
\* 1, 2, ... in the order of their squares
Layouts == {S \in SUBSET (0..(NCells - 1)) : Cardinality(S) <= LibRows}
InOrder(S) ==
    [i \in 1..Cardinality(S) |->
        CHOOSE p \in S : Cardinality({q \in S : q < p}) = i - 1]
CellOf(p) == <<p % GridWidth, p \div GridWidth>>

\* the attribute columns: all values equal, all different, with a missing
\* value, or all missing
Patterns == {"const", "ramp", "gap", "flatgap", "empty"}
Series(pattern, n) ==
    [i \in 1..n |->
        CASE pattern = "const" -> <<5>>
          [] pattern = "ramp" -> <<i>>
          [] pattern = "gap" -> IF i = 1 THEN NaN ELSE <<2 * i>>
          [] pattern = "flatgap" -> IF i = 1 THEN NaN ELSE <<5>>
          [] OTHER -> NaN]

GeoFrame(S, geo, tp, dp) ==
    LET cells == InOrder(S)
        n == Len(cells)
    IN  [geo |-> geo,
         index |-> [i \in 1..n |-> i],
         geometry |-> [i \in 1..n |-> CellOf(cells[i])],
         cols |-> [c \in {x \in {TRUMP} : tp # "absent"} \cup
                          {x \in {DISTRESS} : dp # "absent"} |->
                      IF c = TRUMP THEN Series(tp, n) ELSE Series(dp, n)]]

FeatureFrames ==
    {GeoFrame(S, geo, tp, dp) :
        S \in Layouts, geo \in BOOLEAN,
        tp \in Patterns \cup {"absent"}, dp \in Patterns \cup {"absent"}}

\* the frames handed to compute_distress_metrics: MetricRows rows in a strip,
\* each source column absent or filled by a pattern
MetricRows == 3
MetricCols ==
    {"trump_share_2016", "trump_share_2020", "od_1316_rate", "od_1720_rate",
     "freq_phys_distress_pct"}
MetricFrames ==
    {[geo |-> TRUE,
      index |-> [i \in 1..MetricRows |-> i],
      geometry |-> [i \in 1..MetricRows |-> <<i - 1, 0>>],
      cols |-> [c \in {x \in MetricCols : pat[x] # "absent"} |->
                   Series(pat[c], MetricRows)]] :
        pat \in [MetricCols -> {"absent", "ramp", "gap", "const"}]}

\* the sum of the values of a function
RECURSIVE SumFn(_)
SumFn(f) ==
    IF DOMAIN f = {} THEN 0
    ELSE LET x == CHOOSE x \in DOMAIN f : TRUE
         IN  f[x] + SumFn([y \in DOMAIN f \ {x} |-> f[y]])

\* missing values filled with 1
FillnaOne(col) == [i \in DOMAIN col |-> IF col[i] = NaN THEN 1 ELSE col[i][1]]

\* column.fillna(0).values
Fillna0(col) == [i \in DOMAIN col |-> IF col[i] = NaN THEN 0 ELSE col[i][1]]

\* local_w.sparse.dot(values): the weights of a row share a denominator, so
\* the product is <<sum of numerator * value, denominator>>, <<0, 1>> for the
\* empty row of an island
SparseDot(graph, values) ==
    [u \in DOMAIN graph.weights |->
        LET row == graph.weights[u]
        IN  IF DOMAIN row = {} THEN <<0, 1>>
            ELSE <<SumFn([v \in DOMAIN row |-> row[v][1] * values[v]]),
                   row[CHOOSE v \in DOMAIN row : TRUE][2]>>]

\* add_spatial_lag(gdf, column, w, weight_type); w = NoW stands for w=None
add_spatial_lag(frame, column, graph, weight_type) ==
    IF column \notin DOMAIN frame.cols THEN Raise("ValueError")
    ELSE LET local_w == IF graph # NoW THEN graph
                        ELSE build_spatial_weights(frame, weight_type, 8, "asc")
         IN  IF Raised(local_w) THEN local_w
             ELSE [frame EXCEPT !.cols =
                      [c \in DOMAIN frame.cols \cup {column \o "_lag"} |->
                          IF c = column \o "_lag"
                          THEN SparseDot(local_w, Fillna0(frame.cols[column]))
                          ELSE frame.cols[c]]]

\* ---------------------------------------------- features/pain_metrics.py
\* x / y in floating point, for x = num and y = the square root of rad
FloatDiv(num, rad) ==
    IF rad # 0 THEN [kind |-> "num", num |-> num, rad |-> rad]
    ELSE IF num = 0 THEN [kind |-> "nan"]
    ELSE [kind |-> "inf"]

\* (series - series.mean()) / series.std(ddof=0): mean and std skip the
\* missing values.  With n values present, sum S and sum of squares SS, the
\* value for x is (n x - S) / sqrt(n SS - S S).
Standardize(series) ==
    LET present == {i \in DOMAIN series : series[i] # NaN}
        n == Cardinality(present)
        S == SumFn([i \in present |-> series[i][1]])
        SS == SumFn([i \in present |-> series[i][1] * series[i][1]])
    IN  [i \in DOMAIN series |->
            IF i \notin present THEN [kind |-> "nan"]
            ELSE FloatDiv(n * series[i][1] - S, n * SS - S * S)]

\* zscore_pair(series_a, series_b): sum(standardized) / len(standardized)
zscore_pair(series_a, series_b) ==
    LET standardized == <<Standardize(series_a), Standardize(series_b)>>
        a == standardized[1]
        b == standardized[2]
    IN  [i \in DOMAIN series_a |->
            IF a[i].kind = "nan" \/ b[i].kind = "nan" THEN [kind |-> "nan"]
            ELSE IF a[i].kind = "inf" \/ b[i].kind = "inf" THEN [kind |-> "inf"]
            ELSE [kind |-> "num", terms |-> <<a[i], b[i]>>, over |-> Len(standardized)]]

\* series_a - series_b, row by row: missing when either value is missing
Minus(series_a, series_b) ==
    [i \in DOMAIN series_a |->
        IF series_a[i] = NaN \/ series_b[i] = NaN THEN NaN
        ELSE <<series_a[i][1] - series_b[i][1]>>]

\* df[c] = col on the columns of a frame
WithCol(cols, c, col) ==
    [x \in DOMAIN cols \cup {c} |-> IF x = c THEN col ELSE cols[x]]

\* the overdose change taken as the earlier rate minus the later one
DistressMetricsReversed(df) ==
    LET have(S) == S \subseteq DOMAIN df.cols
        c1 == IF have({TRUMP, "trump_share_2020"})
              THEN WithCol(df.cols, "trump_shift_16_20", Minus(df.cols["trump_share_2020"], df.cols[TRUMP]))
              ELSE df.cols
        c2 == IF have({"od_1316_rate", "od_1720_rate"})
              THEN WithCol(c1, "od_rate_change", Minus(df.cols["od_1316_rate"], df.cols["od_1720_rate"]))
              ELSE c1
        c3 == IF have({DISTRESS, TRUMP})
              THEN WithCol(c2, "distress_trump_zscore", zscore_pair(df.cols[DISTRESS], df.cols[TRUMP]))
              ELSE c2
    IN  [df EXCEPT !.cols = c3]

\* compute_distress_metrics(df), lines 18-31: the three assignments are made
\* on a copy, each one only when its two source columns are in the frame
compute_distress_metrics(df) ==
    LET have(S) == S \subseteq DOMAIN df.cols
        c1 == IF have({TRUMP, "trump_share_2020"})
              THEN WithCol(df.cols, "trump_shift_16_20", Minus(df.cols["trump_share_2020"], df.cols[TRUMP]))
              ELSE df.cols
        c2 == IF have({"od_1316_rate", "od_1720_rate"})
              THEN WithCol(c1, "od_rate_change", Minus(df.cols["od_1720_rate"], df.cols["od_1316_rate"]))
              ELSE c1
        c3 == IF have({DISTRESS, TRUMP})
              THEN WithCol(c2, "distress_trump_zscore", zscore_pair(df.cols[DISTRESS], df.cols[TRUMP]))
              ELSE c2
    IN  [df EXCEPT !.cols = c3]

\* every variable of the export script and of the suite at rest
NoScript ==
    /\ file_in = <<>> /\ gdf = <<>>
    /\ needs_lisa = FALSE /\ needs_bv = FALSE /\ needs_hotspot = FALSE
    /\ w = NoGraph /\ valid_indices = <<>> /\ w_subset = NoGraph
    /\ rng = 0 /\ draws = NoDraws /\ log = <<>>
    /\ file_out = NoFile
    /\ run = 1 /\ prev_out = NoFile /\ prev_log = <<>>
    /\ suite = NoSuite

InitFeatures ==
    /\ NoScript
    /\ pc = "features"
    /\ given \in FeatureFrames \cup MetricFrames
    /\ ret = NoRet
    /\ fs = {}

WeightTypes == {"queen", "rook", "knn", "bishop"}

\* a call build_spatial_weights(given, weight_type, k_neighbors).  For "knn"
\* the calls are those with 0 < k_neighbors < number of rows.
BuildWeights ==
    /\ pc = "features"
    /\ \E weight_type \in WeightTypes, tie \in {"asc", "desc"} :
           \E k_neighbors \in IF weight_type = "knn"
                               THEN 1..(Len(given.index) - 1) ELSE {8} :
               ret' = [fn |-> "build_spatial_weights",
                       weight_type |-> weight_type,
                       k_neighbors |-> k_neighbors,
                       out |-> build_spatial_weights(given, weight_type,
                                                     k_neighbors, tie)]
    /\ UNCHANGED <<file_in, gdf, pc, needs_lisa, needs_bv, needs_hotspot, w,
                   valid_indices, w_subset, rng, draws, log, file_out,
                   run, prev_out, prev_log, suite, given, fs>>

\* a call add_spatial_lag(given, column, weight_type=...); arg is the
\* caller's frame as it was when the call was made
AddSpatialLag ==
    /\ pc = "features"
    /\ \E column \in {TRUMP, DISTRESS}, weight_type \in WeightTypes \ {"knn"} :
           ret' = [fn |-> "add_spatial_lag",
                   arg |-> given,
                   column |-> column,
                   weight_type |-> weight_type,
                   out |-> add_spatial_lag(given, column, NoW, weight_type)]
    /\ UNCHANGED <<file_in, gdf, pc, needs_lisa, needs_bv, needs_hotspot, w,
                   valid_indices, w_subset, rng, draws, log, file_out,
                   run, prev_out, prev_log, suite, given, fs>>

\* a call zscore_pair(given[a], given[b]), as in lines 26-29
ZscorePair ==
    /\ pc = "features"
    /\ {DISTRESS, TRUMP} \subseteq DOMAIN given.cols
    /\ ret' = [fn |-> "zscore_pair",
               out |-> zscore_pair(given.cols[DISTRESS], given.cols[TRUMP])]
    /\ UNCHANGED <<file_in, gdf, pc, needs_lisa, needs_bv, needs_hotspot, w,
                   valid_indices, w_subset, rng, draws, log, file_out,
                   run, prev_out, prev_log, suite, given, fs>>

\* a call compute_distress_metrics(given); arg is the caller's frame as it
\* was when the call was made
ComputeDistressMetrics ==
    /\ pc = "features"
    /\ ret' = [fn |-> "compute_distress_metrics",
               arg |-> given,
               out |-> compute_distress_metrics(given)]
    /\ UNCHANGED <<file_in, gdf, pc, needs_lisa, needs_bv, needs_hotspot, w,
                   valid_indices, w_subset, rng, draws, log, file_out,
                   run, prev_out, prev_log, suite, given, fs>>

NextFeatures == BuildWeights \/ AddSpatialLag \/ ZscorePair \/ ComputeDistressMetrics

SpecFeatures == InitFeatures /\ [][NextFeatures]_vars

\* ------------------------------------- data/catalog.py, data/validators.py
Asset(name, path, acquisition) ==
    [name |-> name, path |-> path, acquisition |-> acquisition]

\* DataCatalog.default_assets(), paths relative to data/raw
default_assets ==
    << Asset("county_boundaries", "shapefiles/tl_2023_us_county.shp", "automated"),
       Asset("election_returns_2016", "elections/county_presidential_2016.csv", "manual"),
       Asset("election_returns_2020", "elections/county_presidential_2020.csv", "manual"),
       Asset("cdc_wonder_overdose_2013_2016", "cdc_wonder/overdose_2013_2016.txt", "manual"),
       Asset("cdc_wonder_overdose_2017_2020", "cdc_wonder/overdose_2017_2020.txt", "manual"),
       Asset("cdc_places", "cdc_places/places_county_2023.csv", "automated"),
       Asset("usda_rucc", "usda/rucc_2023.xlsx", "automated"),
       Asset("acs_variables", "census/acs_variables.json", "api"),
       Asset("county_health_rankings_2024", "analytic_data2024.csv", "manual"),
       Asset("county_health_rankings_2016", "analytic_data2016.csv", "manual") >>

\* asset.exists, given the files that exist
Exists(asset, files) == asset.path \in files

\* DataCatalog.missing()
CatalogMissing(assets, files) ==
    SelectSeq(assets, LAMBDA asset : ~Exists(asset, files))

\* f"{asset.name} -> expected at {asset.path} ({asset.acquisition})"
Message(asset) == <<asset.name, " -> expected at ", asset.path, asset.acquisition>>

\* a validation that reports the first missing asset only
ValidateFirstMissing(assets, files) ==
    LET missing == SelectSeq(assets, LAMBDA asset : ~Exists(asset, files))
    IN  IF missing = <<>> THEN <<TRUE, <<>>>>
        ELSE <<FALSE, <<Message(missing[1])>>>>

\* validate_required_files(assets) -> (is_valid, missing_messages)
validate_required_files(assets, files) ==
    LET missing == SelectSeq(assets, LAMBDA asset : ~Exists(asset, files))
    IN  IF missing = <<>> THEN <<TRUE, <<>>>>
        ELSE <<FALSE, [i \in 1..Len(missing) |-> Message(missing[i])]>>

\* ------------------------------------------------------ pipeline/build.py
None == "None"
DefaultTarget == "data/processed/counties_analysis.geojson"
CustomTarget == "out/custom.geojson"

\* a build that validates the catalog whatever the caller asked for
BuildResultValidated(files, output_path, use_sample_data) ==
    LET checked == validate_required_files(default_assets, files)
        sample == use_sample_data \/ ~checked[1]
    IN  [dataset |-> IF sample THEN "sample" ELSE "raw",
         output_path |-> IF output_path # None THEN output_path ELSE DefaultTarget,
         missing_assets |-> checked[2],
         used_sample_data |-> sample]

\* the BuildResult of lines 59-89, given the files that exist
BuildResult(files, output_path, use_sample_data) ==
    LET checked == IF ~use_sample_data
                   THEN validate_required_files(default_assets, files)
                   ELSE <<TRUE, <<>>>>
        sample == use_sample_data \/ ~checked[1]
    IN  [dataset |-> IF sample THEN "sample" ELSE "raw",
         output_path |-> IF output_path # None THEN output_path ELSE DefaultTarget,
         missing_assets |-> checked[2],
         used_sample_data |-> sample]

AssetPaths == {default_assets[i].path : i \in DOMAIN default_assets}

InitPipeline ==
    /\ NoScript
    /\ pc = "pipeline"
    /\ given = NoArg
    /\ ret = NoRet
    /\ fs \in SUBSET AssetPaths

\* a call validate_required_files(DataCatalog())
ValidateRequiredFiles ==
    /\ pc = "pipeline"
    /\ ret' = [fn |-> "validate_required_files",
               out |-> validate_required_files(default_assets, fs)]
    /\ UNCHANGED <<file_in, gdf, pc, needs_lisa, needs_bv, needs_hotspot, w,
                   valid_indices, w_subset, rng, draws, log, file_out,
                   run, prev_out, prev_log, suite, given, fs>>

\* a call DataCatalog().missing()
DataCatalogMissing ==
    /\ pc = "pipeline"
    /\ ret' = [fn |-> "missing", out |-> CatalogMissing(default_assets, fs)]
    /\ UNCHANGED <<file_in, gdf, pc, needs_lisa, needs_bv, needs_hotspot, w,
                   valid_indices, w_subset, rng, draws, log, file_out,
                   run, prev_out, prev_log, suite, given, fs>>

\* a call build_analysis_dataset(output_path=..., use_sample_data=...): it
\* returns after gdf.to_file wrote the target, or a loader of the raw assets
\* or the write raises and nothing is returned
BuildAnalysisDataset ==
    /\ pc = "pipeline"
    /\ \E use_sample_data \in BOOLEAN, output_path \in {None, CustomTarget} :
           LET result == BuildResult(fs, output_path, use_sample_data)
               call == [fn |-> "build_analysis_dataset",
                        use_sample_data |-> use_sample_data,
                        output_path |-> output_path]
           IN  \/ /\ ~result.used_sample_data
                  /\ ret' = call @@ [out |-> Raise("ValueError")]
                  /\ fs' = fs
               \/ /\ ret' = call @@ [out |-> Raise("WriteError")]
                  /\ fs' = fs
               \/ /\ ret' = call @@ [out |-> result]
                  /\ fs' = fs \cup {result.output_path}
    /\ UNCHANGED <<file_in, gdf, pc, needs_lisa, needs_bv, needs_hotspot, w,
                   valid_indices, w_subset, rng, draws, log, file_out,
                   run, prev_out, prev_log, suite, given>>

NextPipeline == ValidateRequiredFiles \/ DataCatalogMissing \/ BuildAnalysisDataset

SpecPipeline == InitPipeline /\ [][NextPipeline]_vars

\* ------------------------------------------------------- data/loaders.py
\* A FIPS code as text: the digits of n, padded with zeros on the left to
\* width characters.  The second header row of a County Health Rankings
\* file holds the text "fipscode" in that column.
Fips(n, width) == [n |-> n, width |-> width]
FipsCode == [n |-> -1, width |-> 8]

\* .str.zfill(5)
Zfill5(text) == IF text.width < 5 THEN [text EXCEPT !.width = 5] ELSE text

\* the order of two texts of digits, character by character
TextLess(a, b) ==
    LET Digit(text, i) == (text.n \div (10 ^ (text.width - i))) % 10
        m == IF a.width < b.width THEN a.width ELSE b.width
        same(i) == \A j \in 1..(i - 1) : Digit(a, j) = Digit(b, j)
    IN  \/ \E i \in 1..m : same(i) /\ Digit(a, i) < Digit(b, i)
        \/ same(m + 1) /\ a.width < b.width

\* the keys of df.groupby(key) or of a pivot: each key once, sorted
SortedUnique(keys) ==
    LET S == Range(keys)
    IN  [i \in 1..Cardinality(S) |->
            CHOOSE k \in S : Cardinality({x \in S : TextLess(x, k)}) = i - 1]

\* A loaded table is the sequence of its fips column.
\* load_county_boundaries: fips = GEOID, the rows of the shapefile as they are
load_county_boundaries(file) == [rows |-> file]

\* load_election_returns: file is the county_fips of the rows of a TRUMP
\* candidate; the result has one row per key of the groupby
load_election_returns(file) ==
    [rows |-> SortedUnique([i \in DOMAIN file |-> Zfill5(file[i])])]

\* load_cdc_wonder: file is the County Code column
load_cdc_wonder(file) ==
    [rows |-> SortedUnique([i \in DOMAIN file |-> Zfill5(file[i])])]

\* load_cdc_places: file is the LocationID of the AgeAdjPrv rows of one
\* measure.  pivot raises ValueError on a repeated LocationID; the index is
\* padded after the pivot.
load_cdc_places(file) ==
    IF Cardinality(Range(file)) < Len(file) THEN Raise("ValueError")
    ELSE LET pivot == SortedUnique(file)
         IN  [rows |-> [i \in DOMAIN pivot |-> Zfill5(pivot[i])]]

\* load_rucc: file is the FIPS column; every row of the sheet is returned
load_rucc(file) == [rows |-> [i \in DOMAIN file |-> Zfill5(file[i])]]

\* _deduplicate_columns(columns), lines 201-210: seen counts the repeats of a
\* name, result grows by one name per column
RECURSIVE DedupLoop(_, _, _)
DedupLoop(columns, seen, result) ==
    IF columns = <<>> THEN result
    ELSE LET col == Head(columns)
         IN  IF col \notin DOMAIN seen
             THEN DedupLoop(Tail(columns),
                            [x \in DOMAIN seen \cup {col} |->
                                IF x = col THEN 0 ELSE seen[x]],
                            Append(result, col))
             ELSE DedupLoop(Tail(columns),
                            [seen EXCEPT ![col] = @ + 1],
                            Append(result, col \o "_" \o ToString(seen[col] + 1)))

deduplicate_columns(columns) == DedupLoop(columns, <<>>, <<>>)

\* rename_base, for the two columns the model follows
ChrRename(name) ==
    CASE name = "5_digit_fips_code" -> "fips"
      [] name = "release_year" -> "chr_release_year"
      [] OTHER -> name

\* pd.to_numeric(text, errors="coerce")
ToNumeric(text) ==
    CASE text = "2016" -> <<2016>>
      [] text = "2023" -> <<2023>>
      [] text = "2024" -> <<2024>>
      [] OTHER -> NaN

\* load_county_health_rankings(release_year), lines 238-321.  file.columns
\* are the headers after _snake_case; a row holds the text under the FIPS
\* header and under the first release-year header.
load_county_health_rankings(release_year, file, files) ==
    LET path == "analytic_data" \o ToString(release_year) \o ".csv"
        columns == [i \in DOMAIN file.columns |->
                       ChrRename(deduplicate_columns(file.columns)[i])]
        kept == SelectSeq(file.rows,
                    LAMBDA r : r.fips # FipsCode /\ Zfill5(r.fips).n % 1000 # 0)
    IN  IF path \notin files THEN Raise("FileNotFoundError")
        ELSE IF "fips" \notin Range(columns) THEN Raise("ValueError")
        ELSE IF "chr_release_year" \notin Range(columns) THEN Raise("ValueError")
        ELSE [rows |-> [i \in DOMAIN kept |->
                 [fips |-> Zfill5(kept[i].fips),
                  chr_release_year |->
                      IF ToNumeric(kept[i].year) = NaN THEN release_year
                      ELSE ToNumeric(kept[i].year)[1]]]]

\* ------------------------------------ pipeline/build.py, the raw assets
\* merged.merge(df, on="fips", how="left"): the rows of merged in order, each
\* once for every row of df with its key (from gets the position of that
\* row) and once with missing values (from gets 0) when df has none
MergeLeft(merged, df) ==
    Flatten([i \in 1..Len(merged) |->
        LET hits == SelectSeq([j \in 1..Len(df) |-> j],
                              LAMBDA j : df[j] = merged[i].fips)
        IN  IF hits = <<>> THEN << [merged[i] EXCEPT !.from = Append(@, 0)] >>
            ELSE [h \in 1..Len(hits) |->
                     [merged[i] EXCEPT !.from = Append(@, hits[h])]]])

\* for df in dfs: merged = merged.merge(df, on="fips", how="left")
RECURSIVE MergeAll(_, _)
MergeAll(merged, dfs) ==
    IF dfs = <<>> THEN merged
    ELSE MergeAll(MergeLeft(merged, Head(dfs)), Tail(dfs))

\* _build_from_raw_assets, lines 94-172, for the raw files given
build_from_raw_assets(raw, files) ==
    LET loaded == load_county_boundaries(raw.shapefile).rows
        counties == SelectSeq(loaded, LAMBDA k :
                        (k.n \div 1000) \notin {2, 15, 60, 66, 69, 72, 78})
        places == load_cdc_places(raw.places)
        chr_2024 == load_county_health_rankings(2024, raw.chr_2024, files)
        chr_2016 == load_county_health_rankings(2016, raw.chr_2016, files)
        fips_of(t) == [i \in DOMAIN t.rows |-> t.rows[i].fips]
    IN  IF Raised(places) THEN places
        ELSE IF Raised(chr_2024) THEN chr_2024
        ELSE IF Raised(chr_2016) THEN chr_2016
        ELSE [rows |-> MergeAll(
                 [i \in DOMAIN counties |-> [fips |-> counties[i], from |-> <<>>]],
                 << load_election_returns(raw.election_2016).rows,
                    load_election_returns(raw.election_2020).rows,
                    load_cdc_wonder(raw.overdose_1316).rows,
                    load_cdc_wonder(raw.overdose_1720).rows,
                    places.rows,
                    load_rucc(raw.rucc).rows,
                    fips_of(chr_2024),
                    fips_of(chr_2016) >>)]

\* ------------------------------------------------ calls of the loaders
\* bounds: rows of a County Health Rankings file, names in a header
ChrRows == 2
NameLen == 3

RECURSIVE SeqsUpTo(_, _)
SeqsUpTo(S, n) ==
    IF n = 0 THEN {<<>>}
    ELSE LET shorter == SeqsUpTo(S, n - 1)
         IN  shorter \cup {Append(q, x) : q \in shorter, x \in S}

\* the County Health Rankings files: a header with or without the FIPS
\* and the release-year column, and rows for a county, a state or the second
\* header row, with a release year or none
ChrFiles ==
    LET cells == {[fips |-> f, year |-> y] :
                     f \in {FipsCode, Fips(1000, 4), Fips(1001, 4), Fips(1003, 5)},
                     y \in {"2016", "2023", "2024", ""}}
        headers == {<<"5_digit_fips_code", "release_year">>,
                    <<"5_digit_fips_code", "name">>,
                    <<"name", "release_year">>,
                    <<"5_digit_fips_code", "release_year", "release_year">>}
    IN  {[columns |-> h, rows |-> r] : h \in headers, r \in SeqsUpTo(cells, ChrRows)}

\* the lists of names handed to _deduplicate_columns
NameLists == SeqsUpTo({"a", "a_1", "b"}, NameLen)

\* the raw files handed to a build: two counties, a repeated key in the
\* files that are grouped, and in the others a repeated key, a key without
\* its leading zero or a missing county
RawAssets ==
    LET k1 == Fips(1001, 5)
        k3 == Fips(1003, 5)
        grouped == {<<k1, k1, k3>>, <<k3>>}
        chr(rows) == [columns |-> <<"5_digit_fips_code", "release_year">>, rows |-> rows]
        rankings == {chr(<<[fips |-> FipsCode, year |-> "year"],
                           [fips |-> Fips(1001, 4), year |-> "2024"],
                           [fips |-> k3, year |-> "2024"]>>),
                     chr(<<[fips |-> k1, year |-> "2024"],
                           [fips |-> k1, year |-> "2023"]>>)}
    IN  [shapefile : {<<k1, k3, Fips(72001, 5)>>},
         election_2016 : grouped, election_2020 : grouped,
         overdose_1316 : grouped, overdose_1720 : grouped,
         places : {<<Fips(1001, 4), k3>>, <<Fips(1001, 4), k1>>, <<k1, k1>>},
         rucc : {<<Fips(1001, 4), k3>>, <<Fips(1001, 4), Fips(1001, 4)>>, <<>>},
         chr_2024 : rankings, chr_2016 : rankings]

\* pc is "loaders" before the one call of a behaviour and "returned" after it
InitLoaders ==
    /\ NoScript
    /\ pc = "loaders"
    /\ given = NoArg
    /\ ret = NoRet
    /\ fs \in {AssetPaths, AssetPaths \ {"analytic_data2016.csv"}}

\* a call load_county_health_rankings(release_year) on a file with the
\* contents drawn
LoadCountyHealthRankings ==
    /\ pc = "loaders"
    /\ \E release_year \in {2016, 2024}, file \in ChrFiles :
           ret' = [fn |-> "load_county_health_rankings",
                   release_year |-> release_year,
                   file |-> file,
                   out |-> load_county_health_rankings(release_year, file, fs)]
    /\ pc' = "returned"
    /\ UNCHANGED <<file_in, gdf, needs_lisa, needs_bv, needs_hotspot, w,
                   valid_indices, w_subset, rng, draws, log, file_out,
                   run, prev_out, prev_log, suite, given, fs>>

\* a call _deduplicate_columns(columns)
DeduplicateColumns ==
    /\ pc = "loaders"
    /\ \E columns \in NameLists :
           ret' = [fn |-> "_deduplicate_columns",
                   columns |-> columns,
                   out |-> deduplicate_columns(columns)]
    /\ pc' = "returned"
    /\ UNCHANGED <<file_in, gdf, needs_lisa, needs_bv, needs_hotspot, w,
                   valid_indices, w_subset, rng, draws, log, file_out,
                   run, prev_out, prev_log, suite, given, fs>>

\* a call _build_from_raw_assets(project_paths) on raw files with the
\* contents drawn
BuildFromRawAssets ==
    /\ pc = "loaders"
    /\ \E raw \in RawAssets :
           ret' = [fn |-> "_build_from_raw_assets",
                   raw |-> raw,
                   out |-> build_from_raw_assets(raw, fs)]
    /\ pc' = "returned"
    /\ UNCHANGED <<file_in, gdf, needs_lisa, needs_bv, needs_hotspot, w,
                   valid_indices, w_subset, rng, draws, log, file_out,
                   run, prev_out, prev_log, suite, given, fs>>

NextLoaders == LoadCountyHealthRankings \/ DeduplicateColumns \/ BuildFromRawAssets

SpecLoaders == InitLoaders /\ [][NextLoaders]_vars

Init == InitExport \/ InitSuite

Next == ScriptNext \/ SuiteFit \/ ToDataframe

Spec == Init /\ [][Next]_vars

\* ============================================================ properties
LisaCols == {LisaCol(TRUMP), LisaCol(DISTRESS)}
HotspotCols == {HotspotCol(TRUMP), HotspotCol(DISTRESS)}
ClusterDomain == {"HH", "LH", "LL", "HL", NotSignificant}
HotspotDomain == {"Hot Spot - 99% Conf", "Cold Spot - 99% Conf",
                  "Hot Spot - 95% Conf", "Cold Spot - 95% Conf",
                  "Hot Spot - 90% Conf", "Cold Spot - 90% Conf", NotSignificant}

\* the attribute(s) an output column is computed from
AttrsOf(c) ==
    CASE c \in {LisaCol(TRUMP), HotspotCol(TRUMP)} -> {TRUMP}
      [] c \in {LisaCol(DISTRESS), HotspotCol(DISTRESS)} -> {DISTRESS}
      [] OTHER -> {DISTRESS, TRUMP}

\* the units of the input file with no missing value for the column's attributes
ValidUnits(c) == {u \in Units : \A a \in AttrsOf(c) : file_in[a][u] # "NA"}
ValidSeq(c) == SelectSeq(index, LAMBDA u : \A a \in AttrsOf(c) : file_in[a][u] # "NA")

\* the library call for the column returned in this run
Computed(c) == draws[c] # -1

Order == <<"suite", "check", "lisa1", "lisa2", "bv", "hot1", "hot2", "export", "done">>
PcIndex(p) == CHOOSE i \in DOMAIN Order : Order[i] = p
StepOf(c) ==
    CASE c = LisaCol(TRUMP) -> "lisa1"
      [] c = LisaCol(DISTRESS) -> "lisa2"
      [] c = BvCol -> "bv"
      [] c = HotspotCol(TRUMP) -> "hot1"
      [] OTHER -> "hot2"
Past(c) == PcIndex(pc) > PcIndex(StepOf(c))

NeedsOf(c) ==
    CASE c \in LisaCols -> needs_lisa
      [] c = BvCol -> needs_bv
      [] OTHER -> needs_hotspot

\* the step of the column is entered and finds its attribute(s)
Requested(c) == NeedsOf(c) /\ AttrsOf(c) \subseteq DOMAIN gdf

Announce(c) ==
    CASE c = LisaCol(TRUMP) -> Say("Computing LISA for", TRUMP)
      [] c = LisaCol(DISTRESS) -> Say("Computing LISA for", DISTRESS)
      [] c = BvCol -> Say("Computing bivariate LISA", "")
      [] c = HotspotCol(TRUMP) -> Say("Computing hot spots for", TRUMP)
      [] OTHER -> Say("Computing hot spots for", DISTRESS)
Announced(c) == Announce(c) \in Range(log)

\* the label the tables of the specification give the i-th unit of a subset
QuadrantLabel(pn, q) ==
    IF pn * 100 < 5 * (permutations + 1) THEN <<"HH", "LH", "LL", "HL">>[q]
    ELSE NotSignificant

TierLabel(pn, z) ==
    LET side == IF z > 0 THEN "Hot Spot" ELSE "Cold Spot"
        tier == CASE pn * 100 < permutations + 1 -> "99"
                  [] pn * 100 >= permutations + 1 /\ pn * 100 < 5 * (permutations + 1) -> "95"
                  [] pn * 100 >= 5 * (permutations + 1) /\ pn * 100 < 10 * (permutations + 1) -> "90"
                  [] OTHER -> "none"
    IN  IF z = 0 \/ tier = "none" THEN NotSignificant
        ELSE CASE side = "Hot Spot" /\ tier = "99" -> "Hot Spot - 99% Conf"
               [] side = "Hot Spot" /\ tier = "95" -> "Hot Spot - 95% Conf"
               [] side = "Hot Spot" /\ tier = "90" -> "Hot Spot - 90% Conf"
               [] side = "Cold Spot" /\ tier = "99" -> "Cold Spot - 99% Conf"
               [] side = "Cold Spot" /\ tier = "95" -> "Cold Spot - 95% Conf"
               [] OTHER -> "Cold Spot - 90% Conf"

SubsetLabel(c, r, i) ==
    IF c \in HotspotCols THEN TierLabel(PAt(r, i), ZAt(r, i))
    ELSE QuadrantLabel(PAt(r, i), QAt(r, i))

\* C1: in every computed analysis (univariate LISA, bivariate LISA, hot
\* spot) each unit excluded for a missing value holds 'Not Significant' and
\* the i-th result of the subset computation is on the row of the i-th valid
\* unit's own key, wherever the missing units sit in the row order.
RejoinByKey ==
    \A c \in EsdaCols : Computed(c) =>
        LET vs == ValidSeq(c)
        IN  /\ c \in DOMAIN gdf
            /\ \A u \in Units \ Range(vs) : gdf[c][u] = NotSignificant
            /\ \A i \in 1..Len(vs) : gdf[c][vs[i]] = SubsetLabel(c, draws[c], i)

\* a computed column with an excluded unit before a unit that got a label
RejoinShiftedWitness ==
    \E c \in EsdaCols :
        /\ Computed(c)
        /\ \E u \in Units \ ValidUnits(c) :
               \E v \in ValidUnits(c) : v > u /\ gdf[c][v] # NotSignificant

\* C2: for every unit in a univariate or bivariate LISA computation the
\* label is HH, LH, LL, HL for quadrant 1, 2, 3, 4 exactly when p < 0.05 and
\* 'Not Significant' otherwise, and a cluster column the script wrote holds
\* no other value.
LisaLabelRule ==
    /\ \A c \in LisaCols \cup {BvCol} : Computed(c) =>
           LET vs == ValidSeq(c)
           IN  \A i \in 1..Len(vs) :
                   LET l == gdf[c][vs[i]]
                       significant == PAt(draws[c], i) * 20 < permutations + 1
                       q == QAt(draws[c], i)
                   IN  /\ (l = "HH") <=> (significant /\ q = 1)
                       /\ (l = "LH") <=> (significant /\ q = 2)
                       /\ (l = "LL") <=> (significant /\ q = 3)
                       /\ (l = "HL") <=> (significant /\ q = 4)
                       /\ (l = NotSignificant) <=> ~significant
    /\ \A c \in (LisaCols \cup {BvCol}) \cap DOMAIN gdf :
           (Computed(c) \/ c \notin DOMAIN file_in) =>
               \A u \in Units : gdf[c][u] \in ClusterDomain

\* a computed cluster column with p = 0.049 labelled and p = 0.050 not
LisaThresholdWitness ==
    \E c \in LisaCols \cup {BvCol} :
        /\ Computed(c)
        /\ \E i, j \in 1..Len(ValidSeq(c)) :
               /\ PAt(draws[c], i) = 49 /\ gdf[c][ValidSeq(c)[i]] \in {"HH", "LH", "LL", "HL"}
               /\ PAt(draws[c], j) = 50 /\ gdf[c][ValidSeq(c)[j]] = NotSignificant

\* C3: for every unit in a hot-spot computation the label follows the tier
\* table: p < 0.01 the 99% tier, 0.01 <= p < 0.05 the 95% tier, 0.05 <= p <
\* 0.10 the 90% tier, Hot Spot for a positive statistic and Cold Spot for a
\* negative one, 'Not Significant' in every other case.
HotspotTierRule ==
    \A c \in HotspotCols : Computed(c) =>
        LET vs == ValidSeq(c)
        IN  \A i \in 1..Len(vs) :
                gdf[c][vs[i]] = TierLabel(PAt(draws[c], i), ZAt(draws[c], i))

\* a computed hot-spot column that holds all seven labels
HotspotAllTiersWitness ==
    \E c \in HotspotCols :
        /\ Computed(c)
        /\ {gdf[c][u] : u \in Units} = HotspotDomain

\* C4: the six band assignments are pairwise disjoint: at most one of them
\* selects a unit, every unit ends with exactly one of the seven labels, and
\* the column is the same when the six assignments run in the reverse order.
BandsDisjoint ==
    \A c \in HotspotCols : Computed(c) =>
        LET vs == ValidSeq(c)
            bands == HotspotBands(G_Local(draws[c], [n |-> Len(vs)]))
        IN  /\ \A i \in 1..Len(vs) :
                   Cardinality({b \in 1..6 : bands[b].mask[i]}) <= 1
            /\ \A u \in Units : gdf[c][u] \in HotspotDomain
            /\ gdf[c] = ApplyBands(Broadcast(NotSignificant), vs, bands,
                                   <<6, 5, 4, 3, 2, 1>>)

\* a computed hot-spot column with a unit one band selects and a unit that
\* no band selects
OneBandWitness ==
    \E c \in HotspotCols :
        /\ Computed(c)
        /\ LET vs == ValidSeq(c)
               bands == HotspotBands(G_Local(draws[c], [n |-> Len(vs)]))
           IN  /\ \E i \in 1..Len(vs) : Cardinality({b \in 1..6 : bands[b].mask[i]}) = 1
               /\ \E i \in 1..Len(vs) : Cardinality({b \in 1..6 : bands[b].mask[i]}) = 0

\* C5: an analysis is skipped when fewer than 100 valid units remain and is
\* computed when 100 or more remain, exactly 100 included.
ThresholdAtHundred ==
    \A c \in EsdaCols : (Past(c) /\ Requested(c)) =>
        (Announced(c) <=> Cardinality(ValidUnits(c)) >= MinValid)

\* C6: an analysis with fewer valid units than the threshold leaves the
\* status 'insufficient data' for every unit, or a diagnostic that says so.
InsufficientDataRecorded ==
    \A c \in EsdaCols :
        (Past(c) /\ Requested(c) /\ Cardinality(ValidUnits(c)) < MinValid) =>
            \/ c \in DOMAIN gdf /\ \A u \in Units : gdf[c][u] = "insufficient data"
            \/ \E k \in DOMAIN log : log[k].msg = "insufficient data"

\* C7: each of the five ESDA columns already in the loaded dataset has its
\* analysis skipped and is exported with its loaded values.
CachedColumnsKept ==
    pc = "done" =>
        \A c \in EsdaCols \cap DOMAIN file_in :
            /\ ~Announced(c)
            /\ c \in DOMAIN file_out.data
            /\ file_out.data[c] = file_in[c]

\* C8: a bivariate LISA requested while one of its two attributes is absent
\* from the dataset fails: the run does not go on past it to the export.
BivariateAbsentFails ==
    (PcIndex(pc) > PcIndex("bv") /\ needs_bv) =>
        {DISTRESS, TRUMP} \subseteq DOMAIN gdf

\* C9: two runs of the script on the same dataset that take the same
\* branches export identical cluster and hot-spot labels.
Reproducible ==
    (run = 2 /\ pc = "done" /\ log = prev_log) => file_out = prev_out

\* the graph last built on a subset has exactly the valid units of the
\* analysis that was last announced as its nodes, in row order, with the
\* contiguity of those units and of no other
ScriptGraphOnSubset ==
    LET ks == {k \in DOMAIN log : \E c \in EsdaCols : log[k] = Announce(c)}
    IN  IF ks = {} THEN w_subset = NoGraph
        ELSE LET last == CHOOSE k \in ks : \A j \in ks : j <= k
                 c == CHOOSE c \in EsdaCols : log[last] = Announce(c)
                 vs == ValidSeq(c)
             IN  /\ w_subset.n = Len(vs)
                 /\ DOMAIN w_subset.neighbors = 1..Len(vs)
                 /\ \A i \in 1..Len(vs) : \A j \in w_subset.neighbors[i] :
                        j \in 1..Len(vs) /\ Touches(vs[i], vs[j])
                 /\ \A i \in 1..(Len(vs) - 1) : Touches(vs[i], vs[i + 1]) =>
                        /\ (i + 1) \in w_subset.neighbors[i]
                        /\ i \in w_subset.neighbors[i + 1]
                 /\ Len(vs) < NUnits => w_subset # w

\* the graph fit() built has exactly the rows without a missing value in the
\* predictors and the dependent variable as its nodes
SuiteGraphOnComplete ==
    LET cols == Range(predictors) \cup {dependent}
        ids == Range(suite.w.id_order)
    IN  /\ ids = {u \in Units : \A c \in cols : gdf[c][u] # "NA"}
        /\ \A u \in ids : suite.w.neighbors[u] \subseteq ids

\* C10: the neighbour graph used for a statistic is built from exactly the
\* units with non-missing values for its attributes, and the graph of the
\* full unit set is never reused for a subset: in the export script always,
\* in SpatialRegressionSuite.fit when dropna is on.
GraphOnValidUnits ==
    /\ ScriptGraphOnSubset
    /\ (suite.w # NoW /\ suite.dropna) => SuiteGraphOnComplete

\* C10 as stated: also when the suite was constructed with dropna off
GraphOnValidUnitsAlways ==
    /\ ScriptGraphOnSubset
    /\ suite.w # NoW => SuiteGraphOnComplete

\* a subset graph in which unit 1 lost its only neighbour, the excluded unit 2
SubsetGraphWitness ==
    /\ w # NoGraph
    /\ w_subset # NoGraph
    /\ w_subset.n > MinValid /\ w_subset.n < NUnits
    /\ w.neighbors[1] = {2}
    /\ w_subset.neighbors[1] = {}
    /\ valid_indices[1] = 1 /\ valid_indices[2] = 3
    /\ \E c \in EsdaCols : Computed(c)

\* the analyses of the run that the gate let through and whose library call
\* raised, and those the gate stopped
Failed(c) == Announced(c) /\ ~Computed(c)
Gated(c) == Past(c) /\ Requested(c) /\ ~Announced(c)

\* C11: the exported collection has exactly one row per unit of the loaded
\* dataset, with the same keys in the same order, whichever analyses were
\* computed, skipped or failed.
ExportKeepsRows ==
    pc = "done" =>
        /\ "fips" \in DOMAIN file_out.data
        /\ \A c \in DOMAIN file_out.data : DOMAIN file_out.data[c] = Units
        /\ \A u \in Units : file_out.data["fips"][u] = file_in["fips"][u]

\* an export written after one analysis was computed, one was stopped by the
\* gate and one failed, from a dataset with missing values
ExportAfterMixedRunWitness ==
    /\ pc = "done"
    /\ \E c \in EsdaCols : Computed(c)
    /\ \E c \in EsdaCols : Gated(c)
    /\ \E c \in EsdaCols : Failed(c)
    /\ \E a \in {TRUMP, DISTRESS} \cap DOMAIN file_in : \E u \in Units : file_in[a][u] = "NA"
    /\ DOMAIN file_out.data["fips"] = Units

\* the sum of the weights of a row, as <<numerator, denominator>>
RECURSIVE SumQ(_)
SumQ(row) ==
    IF DOMAIN row = {} THEN <<0, 1>>
    ELSE LET v == CHOOSE v \in DOMAIN row : TRUE
             rest == SumQ([x \in DOMAIN row \ {v} |-> row[x]])
         IN  <<row[v][1] * rest[2] + rest[1] * row[v][2], row[v][2] * rest[2]>>

Returned(fn) == ret.fn = fn /\ ~Raised(ret.out)

\* C12: in every graph build_spatial_weights returns (queen, rook or knn)
\* the weights of a unit with at least one neighbour sum to 1 and the
\* weights of a unit with no neighbour sum to 0.
RowStochastic ==
    Returned("build_spatial_weights") =>
        /\ ret.weight_type \in {"queen", "rook", "knn"}
        /\ \A u \in Range(given.index) :
               LET total == SumQ(ret.out.weights[u])
               IN  /\ DOMAIN ret.out.weights[u] = ret.out.neighbors[u]
                   /\ IF ret.out.neighbors[u] # {}
                      THEN total[1] = total[2]
                      ELSE total[1] = 0

\* a rook graph with an island, a unit with one neighbour and a unit with two
RowStochasticWitness ==
    /\ Returned("build_spatial_weights")
    /\ ret.weight_type = "rook"
    /\ \E u, v, x \in Range(given.index) :
           /\ ret.out.neighbors[u] = {}
           /\ Cardinality(ret.out.neighbors[v]) = 1
           /\ Cardinality(ret.out.neighbors[x]) = 2

\* C14: zscore_pair gives a finite value to every unit whose two inputs are
\* present, and an attribute whose values are all equal (population standard
\* deviation 0) contributes the standardized value 0.
StandardizedFinite ==
    ret.fn = "zscore_pair" =>
        \A i \in DOMAIN ret.out :
            (given.cols[DISTRESS][i] # NaN /\ given.cols[TRUMP][i] # NaN) =>
                /\ ret.out[i].kind = "num"
                /\ \A t \in 1..2 : ret.out[i].terms[t].rad = 0 =>
                       ret.out[i].terms[t].num = 0

AlignmentError == Say("Error", "alignment")

AboutToSkip ==
    \E c \in EsdaCols :
        pc = StepOf(c) /\ Requested(c) /\ Cardinality(ValidUnits(c)) <= MinValid

\* after a skip for insufficient data every later analysis that was asked
\* for and has enough valid units is still started
SkipKeepsLater ==
    \A c \in EsdaCols : Gated(c) =>
        \A d \in EsdaCols :
            (Past(d) /\ PcIndex(StepOf(d)) > PcIndex(StepOf(c))
                /\ Requested(d) /\ Cardinality(ValidUnits(d)) > MinValid) =>
            Announced(d)

\* C17: an analysis skipped for insufficient data does not stop the run:
\* the step that skips it can be taken, every later analysis that was asked
\* for and has enough valid units is still started, the export step can be
\* taken when the run reaches it, and a finished run has written the export.
SkipDoesNotStop ==
    /\ AboutToSkip => ENABLED ScriptNext
    /\ SkipKeepsLater
    /\ ((\E c \in EsdaCols : Gated(c)) /\ pc = "export") => ENABLED Export
    /\ ((\E c \in EsdaCols : Gated(c)) /\ pc = "done") =>
           /\ file_out # NoFile
           /\ log[Len(log)] = Say("Exported", "")

\* a finished run in which the first LISA pass was skipped for insufficient
\* data, a later analysis was computed and the export was written
SkipThenComputeWitness ==
    /\ pc = "done"
    /\ Gated(LisaCol(TRUMP))
    /\ \E d \in EsdaCols \ {LisaCol(TRUMP)} : Computed(d)
    /\ file_out # NoFile
    /\ LisaCol(TRUMP) \notin DOMAIN file_out.data

BuildResultFlags ==
    Returned("build_analysis_dataset") =>
        LET absent == {i \in DOMAIN default_assets : default_assets[i].path \notin fs}
        IN  /\ ret.out.used_sample_data <=> (ret.use_sample_data \/ absent # {})
            /\ (ret.out.missing_assets # <<>>) <=> (~ret.use_sample_data /\ absent # {})
            /\ ret.out.output_path \in fs

\* a build on real data that fell back to sample data with two assets
\* missing, and whose default target now exists
BuildFallbackWitness ==
    /\ Returned("build_analysis_dataset")
    /\ ~ret.use_sample_data
    /\ ret.out.used_sample_data
    /\ Len(ret.out.missing_assets) = 2
    /\ ret.output_path = None
    /\ DefaultTarget \in fs

\* the place of an asset name in the catalog
CatalogPlace(name) == CHOOSE i \in DOMAIN default_assets : default_assets[i].name = name

\* C20: validate_required_files returns (True, []) exactly when every asset
\* of the catalog exists; otherwise it returns False with one message for
\* each missing asset and none for the others, in catalog order, as many as
\* DataCatalog.missing() has entries.
ValidateReport ==
    ret.fn = "validate_required_files" =>
        LET valid == ret.out[1]
            messages == ret.out[2]
        IN  /\ valid <=> \A i \in DOMAIN default_assets : default_assets[i].path \in fs
            /\ valid => messages = <<>>
            /\ \A i \in DOMAIN default_assets :
                   Cardinality({k \in DOMAIN messages :
                                   messages[k][1] = default_assets[i].name}) =
                       IF default_assets[i].path \in fs THEN 0 ELSE 1
            /\ \A k \in DOMAIN messages :
                   LET a == default_assets[CatalogPlace(messages[k][1])]
                   IN  messages[k] = <<a.name, " -> expected at ", a.path, a.acquisition>>
            /\ \A j, k \in DOMAIN messages :
                   j < k => CatalogPlace(messages[j][1]) < CatalogPlace(messages[k][1])
            /\ Len(messages) = Len(CatalogMissing(default_assets, fs))

\* a validation that found the first, the fifth and the last asset missing
ValidateThreeMissingWitness ==
    /\ ret.fn = "validate_required_files"
    /\ ret.out[1] = FALSE
    /\ Len(ret.out[2]) = 3
    /\ ret.out[2][1][1] = "county_boundaries"
    /\ ret.out[2][2][1] = "cdc_wonder_overdose_2017_2020"
    /\ ret.out[2][3][1] = "county_health_rankings_2016"

\* C16: a univariate LISA or a hot-spot analysis requested for an attribute
\* that is absent from the dataset fails: the run does not go on past the
\* step as if nothing had been asked.
AbsentAttributeFails ==
    \A c \in LisaCols \cup HotspotCols :
        (Past(c) /\ NeedsOf(c)) => AttrsOf(c) \subseteq DOMAIN gdf

NoDuplicateFips ==
    Returned("_build_from_raw_assets") =>
        \A i, j \in DOMAIN ret.out.rows :
            ret.out.rows[i].fips = ret.out.rows[j].fips => i = j

\* C23: every row load_county_health_rankings(release_year=Y) returns has
\* chr_release_year = Y, whatever the release-year column of the file holds.
ReleaseYearIsArgument ==
    Returned("load_county_health_rankings") =>
        \A i \in DOMAIN ret.out.rows :
            ret.out.rows[i].chr_release_year = ret.release_year

\* C25: _deduplicate_columns returns as many names as it was given, all
\* different, and the first occurrence of each name as it was.
DeduplicatedDistinct ==
    ret.fn = "_deduplicate_columns" =>
        /\ Len(ret.out) = Len(ret.columns)
        /\ \A i, j \in DOMAIN ret.out : ret.out[i] = ret.out[j] => i = j
        /\ \A i \in DOMAIN ret.columns :
               (\A j \in 1..(i - 1) : ret.columns[j] # ret.columns[i]) =>
                   ret.out[i] = ret.columns[i]

\* C24: build_spatial_weights raises TypeError for an input that is not a
\* GeoDataFrame and ValueError for a weight_type other than 'queen', 'rook'
\* or 'knn', and returns a graph in no such call; add_spatial_lag called
\* without weights on a frame that has the column raises the same error, and
\* neither its result nor the caller's frame then has a lag column.
WeightErrorsSurface ==
    /\ ret.fn = "build_spatial_weights" =>
           /\ ~given.geo => ret.out = Raise("TypeError")
           /\ (given.geo /\ ret.weight_type \notin {"queen", "rook", "knn"}) =>
                  ret.out = Raise("ValueError")
           /\ Raised(ret.out) <=>
                  (~given.geo \/ ret.weight_type \notin {"queen", "rook", "knn"})
    /\ (ret.fn = "add_spatial_lag" /\ ret.column \in DOMAIN given.cols) =>
           /\ ret.out = (IF ~given.geo THEN Raise("TypeError")
                         ELSE IF ret.weight_type \notin {"queen", "rook", "knn"}
                              THEN Raise("ValueError")
                         ELSE ret.out)
           /\ Raised(ret.out) =>
                  /\ ret.out = build_spatial_weights(given, ret.weight_type, 8, "asc")
                  /\ DOMAIN ret.out = {"raised"}
                  /\ given = ret.arg
                  /\ (ret.column \o "_lag") \notin DOMAIN given.cols

\* add_spatial_lag called with an unknown weight_type on a GeoDataFrame of
\* three rows that has the column: ValueError
LagBadWeightTypeWitness ==
    /\ ret.fn = "add_spatial_lag"
    /\ given.geo
    /\ Len(given.index) = 3
    /\ ret.column \in DOMAIN given.cols
    /\ ret.weight_type = "bishop"
    /\ ret.out = Raise("ValueError")

\* the neighbours of a row of the caller's frame under a weight type
NeighboursIn(frame, weight_type, u) ==
    {v \in Range(frame.index) :
        IF weight_type = "queen" THEN QueenTouch(frame.geometry[u], frame.geometry[v])
        ELSE RookTouch(frame.geometry[u], frame.geometry[v])}

\* C30: add_spatial_lag with weights from build_spatial_weights returns the
\* caller's frame, rows in the same order, with the one added column
\* '<column>_lag'; no lag is missing; the lag of a unit with neighbours is
\* the sum of its neighbours' non-missing values divided by the number of
\* all its neighbours, the lag of an island is 0, and a unit whose own value
\* is missing gets a lag like any other.
LagCountsMissingAsZero ==
    Returned("add_spatial_lag") =>
        LET lag == ret.column \o "_lag"
            col == given.cols[ret.column]
            out == ret.out
        IN  /\ given = ret.arg
            /\ out.index = given.index /\ out.geometry = given.geometry
            /\ DOMAIN out.cols = DOMAIN given.cols \cup {lag}
            /\ Cardinality(DOMAIN out.cols) = Cardinality(DOMAIN given.cols) + 1
            /\ \A c \in DOMAIN given.cols : out.cols[c] = given.cols[c]
            /\ DOMAIN out.cols[lag] = Range(given.index)
            /\ \A u \in Range(given.index) :
                   LET nb == NeighboursIn(given, ret.weight_type, u)
                       total == SumFn([v \in {x \in nb : col[x] # NaN} |-> col[v][1]])
                       value == out.cols[lag][u]
                   IN  /\ value # NaN
                       /\ value[2] > 0
                       /\ IF nb = {} THEN value[1] = 0
                          ELSE value[1] * Cardinality(nb) = total * value[2]

\* a lag column in which a unit with one missing and one present neighbour
\* has half the present value, and the unit whose own value is missing has
\* the value of its neighbour
LagWithMissingNeighbourWitness ==
    /\ Returned("add_spatial_lag")
    /\ ret.weight_type = "rook"
    /\ LET col == given.cols[ret.column]
           value == ret.out.cols[ret.column \o "_lag"]
       IN  /\ Len(given.index) = 3
           /\ col[1] = NaN /\ col[2] = <<4>> /\ col[3] = <<6>>
           /\ NeighboursIn(given, "rook", 2) = {1, 3}
           /\ value[2] = <<6, 2>>
           /\ value[1] = <<4, 1>>

\* the exception of the analysis was printed right after its announcement
Reported(c) ==
    \E k \in 1..(Len(log) - 1) : log[k] = Announce(c) /\ log[k + 1].msg = "Error"

\* C26: an exception raised in the computation or in the label mapping of
\* one analysis is caught and printed; every later analysis that was asked
\* for and has enough valid units is still started, the export step can be
\* taken when the run reaches it, and a finished run has written the file.
ExceptionContained ==
    /\ \A c \in EsdaCols : Failed(c) =>
           /\ Reported(c)
           /\ Past(c)
           /\ \A d \in EsdaCols :
                  (Past(d) /\ PcIndex(StepOf(d)) > PcIndex(StepOf(c))
                      /\ Requested(d) /\ Cardinality(ValidUnits(d)) > MinValid) =>
                  Announced(d)
    /\ ((\E c \in EsdaCols : Failed(c)) /\ pc = "export") => ENABLED Export
    /\ ((\E c \in EsdaCols : Failed(c)) /\ pc = "done") =>
           /\ file_out # NoFile
           /\ log[Len(log)] = Say("Exported", "")

\* a finished run in which the library call of the first LISA pass raised,
\* the label mapping of a later analysis raised, an analysis after both was
\* computed, and the file was written
FailuresThenExportWitness ==
    /\ pc = "done"
    /\ Say("Error", "") \in Range(log)
    /\ AlignmentError \in Range(log)
    /\ Failed(LisaCol(TRUMP))
    /\ LisaCol(TRUMP) \notin DOMAIN gdf
    /\ Failed(BvCol)
    /\ Computed(HotspotCol(DISTRESS))
    /\ file_out # NoFile
    /\ HotspotCol(DISTRESS) \in DOMAIN file_out.data

\* C27: after the computation phase each of the five ESDA columns that was
\* not in the loaded dataset exists whenever its attribute(s) are present
\* with more than 100 valid units and its computation raised no error,
\* whichever of the other ESDA columns were loaded.
AbsentColumnsComputed ==
    pc \in {"export", "done"} =>
        \A c \in EsdaCols \ DOMAIN file_in :
            (AttrsOf(c) \subseteq DOMAIN file_in
                /\ Cardinality(ValidUnits(c)) > MinValid
                /\ ~Failed(c)) =>
            c \in DOMAIN gdf

\* C28: after the load step the dataset has a NAME column (the loaded NAME,
\* else county_name, else a column that is NAME but for its case, else
\* fips) and the script is at the computation phase: it has not raised.
NameAlwaysPresent ==
    pc # "load" =>
        /\ pc = "check"
        /\ "NAME" \in DOMAIN gdf
        /\ LET cols == DOMAIN file_in
               source == IF "NAME" \in cols THEN "NAME"
                         ELSE IF "county_name" \in cols THEN "county_name"
                         ELSE IF \E c \in cols : Upper(c) = "NAME"
                              THEN CHOOSE c \in cols : Upper(c) = "NAME"
                         ELSE "fips"
           IN  gdf["NAME"] = file_in[source]

\* the model tags of the rows of a table, each tag once, in row order
RECURSIVE TagsInOrder(_)
TagsInOrder(rows) ==
    IF rows = <<>> THEN <<>>
    ELSE LET rest == TagsInOrder(Tail(rows))
         IN  IF rest # <<>> /\ Head(rest) = Head(rows).model THEN rest
             ELSE <<Head(rows).model>> \o rest

\* C29: to_dataframe raises RuntimeError in every state in which no fit()
\* has stored a result (after construction, after a fit() that raised);
\* once a fit() has stored the OLS result no later step empties the results
\* and to_dataframe does not raise; the rows it returns carry the keys of
\* results as model tags, in the order ols, spatial_lag, spatial_error.
ToDataframeAfterFit ==
    /\ [](/\ ret.fn = "to_dataframe" =>
               /\ Raised(ret.out) <=> ret.results = <<>>
               /\ Raised(ret.out) => ret.out = Raise("RuntimeError")
               /\ ~Raised(ret.out) =>
                      /\ TagsInOrder(ret.out.rows) = ret.results
                      /\ \A i \in DOMAIN ret.out.rows :
                             ret.out.rows[i].model \in Range(suite.results)
                      /\ \E n \in 1..3 :
                             ret.results = SubSeq(<<"ols", "spatial_lag", "spatial_error">>, 1, n)
          /\ suite.last \in {"constructed", "ValueError"} => suite.results = <<>>
          /\ suite.results = <<>> => to_dataframe(suite.results) = Raise("RuntimeError")
          /\ suite.results # <<>> => suite.results[1] = "ols")
    /\ [][suite.results # <<>> =>
              /\ suite'.results # <<>>
              /\ ~Raised(to_dataframe(suite'.results))]_vars

\* a table returned after a fit() that stored the OLS and the spatial lag
\* results and then raised: two tags, five rows
ToDataframeAfterFailedFitWitness ==
    /\ ret.fn = "to_dataframe"
    /\ suite.last = "LibraryError"
    /\ ret.results = <<"ols", "spatial_lag">>
    /\ Len(ret.out.rows) = 5
    /\ ret.out.rows[1].model = "ols"
    /\ ret.out.rows[5].model = "spatial_lag"

====
